---------------------------- MODULE Spec2Model ----------------------------
(***************************************************************************)
(* The two user-management FastAPI services of the repository:             *)
(*   main1.py    string-id service: POST/GET over the list users_db        *)
(*   testing.py  integer-id service: GET/PUT/DELETE over the dict user_db  *)
(* Each service is its own process with its own module globals; a          *)
(* behaviour of the model is the life of one process (variable app).       *)
(* A step is one HTTP request: routing by the application's route table    *)
(* (in registration order), then the endpoint function.                    *)
(***************************************************************************)
EXTENDS Integers, Sequences, FiniteSets, TLC

VARIABLES app, users_db, user_db, issued, returned, request, response

vars == <<app, users_db, user_db, issued, returned, request, response>>

(***************************************************************************)
(* Bounds of the model.                                                    *)
(***************************************************************************)
\* number of distinct request bodies clients send
NumBodies == 1
\* integer path parameters range over 0..MaxReqId (the seeded keys are 1..5)
MaxReqId == 5
\* number of distinct values uuid4 can produce
NumUuids == 3
\* cap on the length of users_db
MaxUsers == 2

(***************************************************************************)
(* Values.                                                                 *)
(***************************************************************************)
Apps == {"main1", "testing"}

Fields == {"name", "email", "phone", "gender"}

\* class User / class UserCreate: the four string fields of a request body
User(name, email, phone, gender) ==
    [name |-> name, email |-> email, phone |-> phone, gender |-> gender]

BodyTable ==
    << User("Ann", "ann@example.com", "5550001", "female"),
       User("John", "john@example.com", "5550002", "male"),
       User("Bob", "bob@example.com", "5550003", "male") >>

Bodies == {BodyTable[k] : k \in 1..NumBodies}

NoBody == <<>>

UuidTable == <<"u1", "u2", "u3", "u4", "u5">>

Uuids == {UuidTable[k] : k \in 1..NumUuids}

Digits == <<"0", "1", "2", "3", "4", "5", "6", "7", "8", "9">>

IntSegs == {Digits[k + 1] : k \in 0..MaxReqId}

\* the last path segment of the requests the clients send
Segs == Uuids \cup IntSegs

\* user_id: int -- the path segment converted to an integer, -1 when it is
\* not the decimal form of one (the request is then rejected with 422)
ParseInt(s) ==
    IF \E k \in 0..9 : Digits[k + 1] = s
    THEN CHOOSE k \in 0..9 : Digits[k + 1] = s
    ELSE -1

\* the seeded dict of testing.py
user_db_seed ==
    [k \in 1..5 |->
        CASE k = 1 -> User("John", "john@example.com", "1234567890", "male")
          [] k = 2 -> User("Jane", "jane@example.com", "0987654321", "female")
          [] k = 3 -> User("Jim", "jim@example.com", "1111111111", "male")
          [] k = 4 -> User("Jill", "jill@example.com", "2222222222", "female")
          [] k = 5 -> User("Jack", "jack@example.com", "3333333333", "male")]

(***************************************************************************)
(* Responses.                                                              *)
(***************************************************************************)
Response(status, endpoint, body) ==
    [status |-> status, endpoint |-> endpoint, body |-> body]

\* raise HTTPException(status_code=..., detail=...) inside an endpoint
HTTPException(endpoint, status_code, detail) ==
    Response(status_code, endpoint, [detail |-> detail])

(***************************************************************************)
(* Routing: the route tables in decorator order, and Starlette's matching. *)
(***************************************************************************)
Route(method, path, endpoint) ==
    [method |-> method, path |-> path, endpoint |-> endpoint]

main1_routes ==
    << Route("GET", <<>>, "home"),
       Route("POST", <<"users">>, "create_user"),
       Route("GET", <<"users">>, "get_all_users"),
       Route("GET", <<"users", "{user_id}">>, "get_user_by_id"),
       Route("GET", <<"users", "count">>, "get_users_count") >>

\* variant: the delete route registered under another path
testing_routes_moved ==
    << Route("GET", <<>>, "home"),
       Route("GET", <<"users">>, "get_all_users"),
       Route("GET", <<"users", "{user_id}">>, "get_user"),
       Route("PUT", <<"users", "{user_id}">>, "update_user"),
       Route("DELETE", <<"users", "v2", "delete", "{user_id}">>, "delete_user") >>

testing_routes ==
    << Route("GET", <<>>, "home"),
       Route("GET", <<"users">>, "get_all_users"),
       Route("GET", <<"users", "{user_id}">>, "get_user"),
       Route("PUT", <<"users", "{user_id}">>, "update_user"),
       Route("DELETE", <<"users", "v1", "delete", "{user_id}">>, "delete_user") >>

Routes(a) == IF a = "main1" THEN main1_routes ELSE testing_routes

IsParam(seg) == seg = "{user_id}"

\* a path template matches a path segment by segment; a parameter matches
\* any segment
Matches(pattern, path) ==
    /\ Len(pattern) = Len(path)
    /\ \A i \in 1..Len(path) : IsParam(pattern[i]) \/ pattern[i] = path[i]

Min(S) == CHOOSE x \in S : \A y \in S : x <= y

\* index of the first route matching path and method; -1 when only the path
\* matches some route (405); 0 when nothing matches (404)
ResolveRoute(routes, method, path) ==
    LET full == {i \in 1..Len(routes) :
                    Matches(routes[i].path, path) /\ routes[i].method = method}
        partial == {i \in 1..Len(routes) : Matches(routes[i].path, path)}
    IN  IF full # {} THEN Min(full)
        ELSE IF partial # {} THEN -1
        ELSE 0

\* the value bound to {user_id}
PathParam(pattern, path) ==
    path[CHOOSE i \in 1..Len(pattern) : IsParam(pattern[i])]

(***************************************************************************)
(* main1.py: endpoints over the list users_db.  Each returns the response  *)
(* and the list as the call leaves it.                                     *)
(***************************************************************************)
Result(resp, db) == [response |-> resp, db |-> db]

\* variant: a generator that can return a value again
uuid4_repeat(iss) == Uuids

\* uuid.uuid4(): a value that no earlier call returned
uuid4(iss) == Uuids \ iss

UserResponse(id, name, email, phone, gender) ==
    [id |-> id, name |-> name, email |-> email, phone |-> phone,
     gender |-> gender]

main1_home(db) ==
    Result(Response(200, "home",
                    [message |-> "User Management API", version |-> "1.0.0"]),
           db)

\* variant: the new record is returned but never appended
create_user_unsaved(db, user, user_id) ==
    LET new_user == UserResponse(user_id, user.name, user.email, user.phone,
                                 user.gender)
    IN  Result(Response(200, "create_user", new_user), db)

create_user(db, user, user_id) ==
    LET new_user == UserResponse(user_id, user.name, user.email, user.phone,
                                 user.gender)
    IN  Result(Response(200, "create_user", new_user), Append(db, new_user))

get_all_users(db) == Result(Response(200, "get_all_users", db), db)

get_user_by_id(db, user_id) ==
    LET hits == {i \in 1..Len(db) : db[i].id = user_id}
    IN  IF hits # {}
        THEN Result(Response(200, "get_user_by_id", db[Min(hits)]), db)
        ELSE Result(HTTPException("get_user_by_id", 404, "User not found"), db)

get_users_count(db) ==
    Result(Response(200, "get_users_count", [total_users |-> Len(db)]), db)

(***************************************************************************)
(* testing.py: endpoints over the dict user_db.                            *)
(***************************************************************************)
\* user.model_dump(): a dict of the model's four fields
model_dump(user) == [f \in Fields |-> user[f]]

testing_home(db) ==
    Result(Response(200, "home",
                    [message |-> "User Update API",
                     total_users |-> Cardinality(DOMAIN db)]),
           db)

testing_get_all_users(db) ==
    Result(Response(200, "get_all_users", [users |-> db]), db)

get_user(db, user_id) ==
    IF user_id \in DOMAIN db
    THEN Result(Response(200, "get_user",
                         [user_id |-> user_id, user |-> db[user_id]]), db)
    ELSE Result(HTTPException("get_user", 404, "User not found"), db)

\* variant: old_user taken without .copy() and the dict updated in place
update_user_alias(db, user_id, user) ==
    IF user_id \in DOMAIN db
    THEN LET db2 == [db EXCEPT ![user_id] = model_dump(user)]
         IN  Result(Response(200, "update_user",
                             [message |-> "User updated successfully",
                              user_id |-> user_id,
                              old_data |-> db2[user_id],
                              new_data |-> db2[user_id]]),
                    db2)
    ELSE Result(HTTPException("update_user", 404, "User not found"), db)

\* variant: no membership test, the assignment creates a missing key
update_user_upsert(db, user_id, user) ==
    LET old_user == IF user_id \in DOMAIN db THEN db[user_id]
                    ELSE model_dump(user)
        db2 == [k \in DOMAIN db \cup {user_id} |->
                    IF k = user_id THEN model_dump(user) ELSE db[k]]
    IN  Result(Response(200, "update_user",
                        [message |-> "User updated successfully",
                         user_id |-> user_id,
                         old_data |-> old_user,
                         new_data |-> db2[user_id]]),
               db2)

update_user(db, user_id, user) ==
    IF user_id \in DOMAIN db
    THEN LET old_user == db[user_id]
             db2 == [db EXCEPT ![user_id] = model_dump(user)]
         IN  Result(Response(200, "update_user",
                             [message |-> "User updated successfully",
                              user_id |-> user_id,
                              old_data |-> old_user,
                              new_data |-> db2[user_id]]),
                    db2)
    ELSE Result(HTTPException("update_user", 404, "User not found"), db)

\* variant: user_db.pop(user_id, None), success whether or not the key exists
delete_user_silent(db, user_id) ==
    Result(Response(200, "delete_user",
                    [message |-> "User deleted successfully"]),
           [k \in DOMAIN db \ {user_id} |-> db[k]])

\* variant: the acknowledgement is returned but the key is kept
delete_user_noop(db, user_id) ==
    IF user_id \in DOMAIN db
    THEN Result(Response(200, "delete_user",
                         [message |-> "User deleted successfully"]), db)
    ELSE Result(HTTPException("delete_user", 404, "User not found"), db)

\* variant: user_db.clear() in place of del user_db[user_id]
delete_user_clear(db, user_id) ==
    IF user_id \in DOMAIN db
    THEN Result(Response(200, "delete_user",
                         [message |-> "User deleted successfully"]),
                [k \in {} |-> db[k]])
    ELSE Result(HTTPException("delete_user", 404, "User not found"), db)

delete_user(db, user_id) ==
    IF user_id \in DOMAIN db
    THEN Result(Response(200, "delete_user",
                         [message |-> "User deleted successfully"]),
                [k \in DOMAIN db \ {user_id} |-> db[k]])
    ELSE Result(HTTPException("delete_user", 404, "User not found"), db)

(***************************************************************************)
(* One request against one application.                                    *)
(***************************************************************************)
main1_app(db, method, path, body, uid) ==
    LET r == ResolveRoute(main1_routes, method, path)
    IN  IF r = 0 THEN Result(HTTPException("router", 404, "Not Found"), db)
        ELSE IF r = -1
        THEN Result(HTTPException("router", 405, "Method Not Allowed"), db)
        ELSE LET ep == main1_routes[r].endpoint
             IN  CASE ep = "home" -> main1_home(db)
                   [] ep = "create_user" -> create_user(db, body, uid)
                   [] ep = "get_all_users" -> get_all_users(db)
                   [] ep = "get_user_by_id" ->
                        get_user_by_id(db, PathParam(main1_routes[r].path, path))
                   [] ep = "get_users_count" -> get_users_count(db)

testing_app(db, method, path, body) ==
    LET r == ResolveRoute(testing_routes, method, path)
    IN  IF r = 0 THEN Result(HTTPException("router", 404, "Not Found"), db)
        ELSE IF r = -1
        THEN Result(HTTPException("router", 405, "Method Not Allowed"), db)
        ELSE LET ep == testing_routes[r].endpoint
                 pattern == testing_routes[r].path
                 hasId == \E i \in 1..Len(pattern) : IsParam(pattern[i])
                 user_id == IF hasId THEN ParseInt(PathParam(pattern, path))
                            ELSE 0
             IN  IF hasId /\ user_id = -1
                 THEN Result(HTTPException("validation", 422,
                                           "Input should be a valid integer"),
                             db)
                 ELSE CASE ep = "home" -> testing_home(db)
                        [] ep = "get_all_users" -> testing_get_all_users(db)
                        [] ep = "get_user" -> get_user(db, user_id)
                        [] ep = "update_user" -> update_user(db, user_id, body)
                        [] ep = "delete_user" -> delete_user(db, user_id)

Req(method, path, body) == [method |-> method, path |-> path, body |-> body]

(***************************************************************************)
(* The state machine.                                                      *)
(***************************************************************************)
Init ==
    /\ app \in Apps
    /\ users_db = <<>>
    /\ user_db = IF app = "testing" THEN user_db_seed ELSE <<>>
    /\ issued = {}
    /\ returned = {}
    /\ request = Req("NONE", <<>>, NoBody)
    /\ response = Response(0, "none", NoBody)

\* the running application serves the request just received
Serve(uid) ==
    LET method == request'.method
        path == request'.path
        body == request'.body
    IN  /\ app' = app
        /\ IF app = "main1"
           THEN LET res == main1_app(users_db, method, path, body, uid)
                    made == res.response.endpoint = "create_user"
                IN  /\ response' = res.response
                    /\ users_db' = res.db
                    /\ issued' = IF made THEN issued \cup {uid} ELSE issued
                    /\ returned' = IF made
                                   THEN returned \cup {res.response.body}
                                   ELSE returned
                    /\ UNCHANGED user_db
           ELSE LET res == testing_app(user_db, method, path, body)
                IN  /\ response' = res.response
                    /\ user_db' = res.db
                    /\ UNCHANGED <<users_db, issued, returned>>

AnyUuid == UuidTable[1]

\* GET /
GetRoot ==
    /\ request' = Req("GET", <<>>, NoBody)
    /\ Serve(AnyUuid)

\* GET /users
GetUsers ==
    /\ request' = Req("GET", <<"users">>, NoBody)
    /\ Serve(AnyUuid)

\* GET /users/count
GetUsersCount ==
    /\ request' = Req("GET", <<"users", "count">>, NoBody)
    /\ Serve(AnyUuid)

\* GET /users/{id}
GetUsersId ==
    \E s \in Segs :
        /\ request' = Req("GET", <<"users", s>>, NoBody)
        /\ Serve(AnyUuid)

\* POST /users with a body; uuid4 is drawn when create_user runs
PostUsers ==
    /\ Len(users_db) < MaxUsers
    /\ \E b \in Bodies : \E uid \in uuid4(issued) :
          /\ request' = Req("POST", <<"users">>, b)
          /\ Serve(uid)

\* PUT /users/{id} with a body
PutUsersId ==
    \E s \in Segs : \E b \in Bodies :
        /\ request' = Req("PUT", <<"users", s>>, b)
        /\ Serve(AnyUuid)

\* DELETE /users/{id}
DeleteUsersId ==
    \E s \in Segs :
        /\ request' = Req("DELETE", <<"users", s>>, NoBody)
        /\ Serve(AnyUuid)

\* DELETE /users/v1/delete/{id}
DeleteUsersV1DeleteId ==
    \E s \in Segs :
        /\ request' = Req("DELETE", <<"users", "v1", "delete", s>>, NoBody)
        /\ Serve(AnyUuid)

Next ==
    \/ GetRoot
    \/ GetUsers
    \/ GetUsersCount
    \/ GetUsersId
    \/ PostUsers
    \/ PutUsersId
    \/ DeleteUsersId
    \/ DeleteUsersV1DeleteId

Spec == Init /\ [][Next]_vars

TypeOK ==
    /\ app \in Apps
    /\ Len(users_db) <= MaxUsers
    /\ DOMAIN user_db \subseteq 1..5
    /\ issued \subseteq Uuids

(***************************************************************************)
(* Vocabulary of the properties.                                           *)
(***************************************************************************)
\* the endpoint function the route table selects for a request
EndpointOf(a, req) ==
    LET r == ResolveRoute(Routes(a), req.method, req.path)
    IN  IF r > 0 THEN Routes(a)[r].endpoint ELSE "router"

\* the last segment of the request's path
Target(req) == req.path[Len(req.path)]

IsUsersId(req) == Len(req.path) = 2 /\ req.path[1] = "users"

StoredIds(db) == {db[i].id : i \in 1..Len(db)}

NotFound(endpoint) == HTTPException(endpoint, 404, "User not found")

Deleted == Response(200, "delete_user", [message |-> "User deleted successfully"])

\* what GET /users/{s} would answer in a given store
Main1Get(db, s) == main1_app(db, "GET", <<"users", s>>, NoBody, AnyUuid).response

TestingGet(db, s) == testing_app(db, "GET", <<"users", s>>, NoBody).response

(***************************************************************************)
(* C1.  String-id service: Create returns a record carrying the request's  *)
(* four fields, and in every later state GET /users/{id} with the id that  *)
(* Create returned answers 200 with exactly the record Create returned.    *)
(***************************************************************************)
C1_CreateThenGet ==
    app = "main1" =>
        /\ EndpointOf(app, request) = "create_user" =>
              /\ response.status = 200
              /\ response.body \in returned
              /\ \A f \in Fields : response.body[f] = request.body[f]
        /\ \A r \in returned :
              Main1Get(users_db, r.id) = Response(200, "get_user_by_id", r)
        /\ (/\ request.method = "GET"
            /\ IsUsersId(request)
            /\ \E r \in returned : r.id = Target(request)) =>
              /\ response.status = 200
              /\ response.body \in returned
              /\ response.body.id = Target(request)

\* a GET has fetched the second record created, after both creations
C1_Witness ==
    /\ app = "main1"
    /\ Len(users_db) = 2
    /\ request.method = "GET"
    /\ IsUsersId(request)
    /\ response.status = 200
    /\ response.body = users_db[2]
    /\ response.body \in returned

(***************************************************************************)
(* C2.  String-id service: GET /users/count is answered by                 *)
(* get_users_count with {"total_users": n}, n the number of records that   *)
(* GET /users returns in the same state, never by another handler or with  *)
(* an error.                                                               *)
(***************************************************************************)
C2_CountRoute ==
    (/\ app = "main1"
     /\ request.method = "GET"
     /\ request.path = <<"users", "count">>) =>
        response = Response(200, "get_users_count",
                            [total_users |->
                                Len(get_all_users(users_db).response.body)])

(***************************************************************************)
(* C3.  GetById, Update and Delete addressed to an identifier that is not  *)
(* in the store answer 404 "User not found" and leave the store as it was. *)
(***************************************************************************)
C3_NotFoundNoChange ==
    [][ /\ (/\ app = "testing"
            /\ EndpointOf(app, request') \in
                   {"get_user", "update_user", "delete_user"}
            /\ ParseInt(Target(request')) # -1
            /\ ParseInt(Target(request')) \notin DOMAIN user_db) =>
               /\ response' = NotFound(EndpointOf(app, request'))
               /\ user_db' = user_db
        /\ (/\ app = "main1"
            /\ EndpointOf(app, request') = "get_user_by_id"
            /\ Target(request') \notin StoredIds(users_db)) =>
               /\ response' = NotFound("get_user_by_id")
               /\ users_db' = users_db
      ]_vars

\* Delete of an identifier that was never stored, on a store Update changed
C3_Witness ==
    /\ app = "testing"
    /\ EndpointOf(app, request) = "delete_user"
    /\ ParseInt(Target(request)) = 0
    /\ response = NotFound("delete_user")
    /\ user_db # user_db_seed
    /\ DOMAIN user_db = 1..5

(***************************************************************************)
(* C4.  Integer-id service: Delete of a stored identifier answers          *)
(* "User deleted successfully", removes exactly that identifier, and       *)
(* GetById on it then answers 404 "User not found".                        *)
(***************************************************************************)
C4_DeleteThenGet ==
    [][ (/\ app = "testing"
         /\ EndpointOf(app, request') = "delete_user"
         /\ ParseInt(Target(request')) \in DOMAIN user_db) =>
            /\ response' = Deleted
            /\ DOMAIN user_db' = DOMAIN user_db \ {ParseInt(Target(request'))}
            /\ TestingGet(user_db', Target(request')) = NotFound("get_user")
      ]_vars

\* a GET of an identifier that an earlier Delete removed
C4_Witness ==
    /\ app = "testing"
    /\ EndpointOf(app, request) = "get_user"
    /\ ParseInt(Target(request)) \in 1..5
    /\ response = NotFound("get_user")

(***************************************************************************)
(* C5 as written.  DELETE /users/1 is answered by Delete with              *)
(* {"message": "User deleted successfully"}.                               *)
(***************************************************************************)
C5_Original ==
    (/\ app = "testing"
     /\ request.method = "DELETE"
     /\ request.path = <<"users", "1">>) =>
        response = Deleted

(***************************************************************************)
(* C5 amended.  DELETE /users/v1/delete/{id} is the request mapped to      *)
(* Delete: from the seeded store DELETE /users/v1/delete/1 answers         *)
(* {"message": "User deleted successfully"} and GET /users/1 then answers  *)
(* 404 {"detail": "User not found"}.                                       *)
(***************************************************************************)
C5_DeleteRoute ==
    [][ (/\ app = "testing"
         /\ user_db = user_db_seed
         /\ request'.method = "DELETE"
         /\ request'.path = <<"users", "v1", "delete", "1">>) =>
            /\ EndpointOf(app, request') = "delete_user"
            /\ response' = Deleted
            /\ TestingGet(user_db', "1") = NotFound("get_user")
      ]_vars

\* DELETE /users/v1/delete/1 has just been served on the seeded store
C5_Witness ==
    /\ app = "testing"
    /\ request.method = "DELETE"
    /\ request.path = <<"users", "v1", "delete", "1">>
    /\ response = Deleted
    /\ DOMAIN user_db = 2..5
    /\ \A k \in 2..5 : user_db[k] = user_db_seed[k]

(***************************************************************************)
(* C6.  Round trip in one store: after Create returned identifier i, an    *)
(* Update of i with new field values succeeds and GetById on i then        *)
(* returns the updated values.                                             *)
(***************************************************************************)
C6_CreateUpdateGet ==
    (/\ request.method = "PUT"
     /\ IsUsersId(request)
     /\ \E r \in returned : r.id = Target(request)) =>
        /\ response.status = 200
        /\ Main1Get(users_db, Target(request)).status = 200
        /\ \A f \in Fields :
              Main1Get(users_db, Target(request)).body[f] = request.body[f]

(***************************************************************************)
(* C7.  Integer-id service: Update of a stored identifier replaces all     *)
(* four fields by the body's values; the response carries old_data, the    *)
(* record as it was before the call, and new_data, the record as stored    *)
(* after it; GetById on the identifier then returns new_data.              *)
(***************************************************************************)
C7_UpdateReplaces ==
    [][ (/\ app = "testing"
         /\ EndpointOf(app, request') = "update_user"
         /\ ParseInt(Target(request')) \in DOMAIN user_db) =>
            LET id == ParseInt(Target(request'))
            IN  /\ id \in DOMAIN user_db'
                /\ DOMAIN user_db'[id] = Fields
                /\ \A f \in Fields : user_db'[id][f] = request'.body[f]
                /\ response'.status = 200
                /\ response'.body.message = "User updated successfully"
                /\ response'.body.user_id = id
                /\ response'.body.old_data = user_db[id]
                /\ response'.body.new_data = user_db'[id]
                /\ TestingGet(user_db', Target(request')) =
                      Response(200, "get_user",
                               [user_id |-> id, user |-> user_db'[id]])
      ]_vars

\* an Update has just replaced a record by different values
C7_Witness ==
    /\ app = "testing"
    /\ EndpointOf(app, request) = "update_user"
    /\ response.status = 200
    /\ response.body.old_data # response.body.new_data
    /\ user_db[response.body.user_id] = response.body.new_data

(***************************************************************************)
(* C8.  Identifiers are unique in the store in every reachable state, and  *)
(* every Create allocates an identifier that no stored record has.         *)
(***************************************************************************)
C8_UniqueIds ==
    /\ [](\A i, j \in 1..Len(users_db) :
             users_db[i].id = users_db[j].id => i = j)
    /\ [][ (app = "main1" /\ EndpointOf(app, request') = "create_user") =>
              /\ response'.body.id \notin StoredIds(users_db)
              /\ response'.body.id \in StoredIds(users_db')
         ]_vars

\* two records with the same field values stored under different identifiers
C8_Witness ==
    /\ app = "main1"
    /\ EndpointOf(app, request) = "create_user"
    /\ Len(users_db) = 2
    /\ users_db[1].id # users_db[2].id
    /\ \A f \in Fields : users_db[1][f] = users_db[2][f]

C10_NeverGrows ==
    /\ (app = "testing" => DOMAIN user_db = 1..5)
    /\ [](app = "testing" =>
            /\ DOMAIN user_db \subseteq 1..5
            /\ \A k \in (0..MaxReqId) \ DOMAIN user_db :
                  /\ TestingGet(user_db, Digits[k + 1]) = NotFound("get_user")
                  /\ \A b \in Bodies :
                        testing_app(user_db, "PUT", <<"users", Digits[k + 1]>>, b)
                            = Result(NotFound("update_user"), user_db)
                  /\ testing_app(user_db, "DELETE",
                                 <<"users", "v1", "delete", Digits[k + 1]>>,
                                 NoBody)
                        = Result(NotFound("delete_user"), user_db))
    /\ [][app = "testing" => DOMAIN user_db' \subseteq DOMAIN user_db]_vars

\* an Update addressed to a deleted identifier was refused, all five deleted
C10_Witness ==
    /\ app = "testing"
    /\ DOMAIN user_db = {}
    /\ EndpointOf(app, request) = "update_user"
    /\ ParseInt(Target(request)) \in 1..5
    /\ response = NotFound("update_user")

=============================================================================
